---- MODULE Spec2Model ----
(***************************************************************************)
(* Model of the VPN Check popup (Popup component): the latency tests       *)
(* (singlePing, testConnection, testAverageConnection) and the chat        *)
(* exchange (sendChatMessage) with its server-sent-event stream loop.      *)
(*                                                                         *)
(* Text is modelled as sequences of Unicode code points, response bodies   *)
(* as sequences of bytes (0..255).  A JavaScript string literal of the     *)
(* source is written as its code points with the literal in a comment.     *)
(***************************************************************************)
EXTENDS Integers, Sequences, FiniteSets, TLC

\* ------------------------------------------------------------------------
\* Bounds of the model
\* ------------------------------------------------------------------------
MaxElapsed == 6      \* a probe takes 0..MaxElapsed half-milliseconds
MaxEvents == 3       \* events per response body in SpecStream
MaxExchanges == 2    \* chat submissions accepted per behaviour in SpecChat
MaxRuns == 2         \* latency tests started per behaviour in SpecPing
MaxLookups == 3      \* calls of fetchIpInfo per behaviour in SpecGeo

\* ------------------------------------------------------------------------
\* String literals of the source
\* ------------------------------------------------------------------------
NL == 10                                         \* '\n'
DataPrefix == <<100, 97, 116, 97, 58, 32>>       \* 'data: '
DoneSentinel == <<91, 68, 79, 78, 69, 93>>       \* '[DONE]'
ContentDelta == <<99, 111, 110, 116, 101, 110, 116, 45, 100, 101, 108, 116, 97>>  \* 'content-delta'
KeyType == <<116, 121, 112, 101>>                \* type
KeyDelta == <<100, 101, 108, 116, 97>>           \* delta
KeyMessage == <<109, 101, 115, 115, 97, 103, 101>>  \* message
KeyContent == <<99, 111, 110, 116, 101, 110, 116>>  \* content
KeyText == <<116, 101, 120, 116>>                \* text
ErrorPrefix == <<69, 114, 114, 111, 114, 58, 32>>   \* 'Error: '
ApiErrorPrefix == <<65, 80, 73, 32, 101, 114, 114, 111, 114, 58, 32>>  \* 'API error: '
KeyNotSet == <<86, 73, 84, 69, 95, 67, 79, 72, 69, 82, 69, 95, 75, 69, 89, 32, 110, 111, 116, 32, 115, 101, 116>>  \* 'VITE_COHERE_KEY not set'
NoResponseBody == <<78, 111, 32, 114, 101, 115, 112, 111, 110, 115, 101, 32, 98, 111, 100, 121>>  \* 'No response body'
FailedToConnect == <<70, 97, 105, 108, 101, 100, 32, 116, 111, 32, 99, 111, 110, 110, 101, 99, 116>>  \* 'Failed to connect'

\* ------------------------------------------------------------------------
\* String operations of the JavaScript runtime used by the source
\* ------------------------------------------------------------------------
\* String.prototype.startsWith
StartsWith(s, p) == Len(s) >= Len(p) /\ SubSeq(s, 1, Len(p)) = p

\* String.prototype.slice(n)
Slice(s, n) == SubSeq(s, n + 1, Len(s))

Min(S) == CHOOSE x \in S : \A y \in S : x <= y

\* String.prototype.split(sep) for a one-character separator: the pieces of s
\* from index i on
RECURSIVE SplitFrom(_, _, _)
SplitFrom(s, sep, i) ==
    LET seps == {j \in i..Len(s) : s[j] = sep}
    IN  IF seps = {} THEN <<SubSeq(s, i, Len(s))>>
        ELSE <<SubSeq(s, i, Min(seps) - 1)>> \o SplitFrom(s, sep, Min(seps) + 1)

Split(s, sep) == SplitFrom(s, sep, 1)

\* White space removed by String.prototype.trim (the characters the inputs use)
IsSpace(c) == c \in {9, 10, 13, 32}

RECURSIVE TrimStart(_)
TrimStart(s) ==
    IF s # <<>> /\ IsSpace(Head(s)) THEN TrimStart(Tail(s)) ELSE s

RECURSIVE TrimEnd(_)
TrimEnd(s) ==
    IF s # <<>> /\ IsSpace(s[Len(s)]) THEN TrimEnd(SubSeq(s, 1, Len(s) - 1)) ELSE s

\* String.prototype.trim
Trim(s) == TrimEnd(TrimStart(s))

\* Number to decimal string, as a template literal formats response.status
RECURSIVE NumberToString(_)
NumberToString(n) ==
    IF n < 10 THEN <<48 + n>>
    ELSE Append(NumberToString(n \div 10), 48 + (n % 10))

\* ------------------------------------------------------------------------
\* UTF-8: TextDecoder.decode(value, { stream: true }) and the server's encoder
\* ------------------------------------------------------------------------
ReplacementChar == 65533     \* U+FFFD, emitted for a malformed sequence

IsContinuation(b) == b >= 128 /\ b <= 191

\* Bytes of the sequence a lead byte announces; 0 for a byte that cannot lead
SequenceLength(b) ==
    IF b < 128 THEN 1
    ELSE IF b >= 194 /\ b <= 223 THEN 2
    ELSE IF b >= 224 /\ b <= 239 THEN 3
    ELSE IF b >= 240 /\ b <= 244 THEN 4
    ELSE 0

CodePoint(bs) ==
    IF Len(bs) = 1 THEN bs[1]
    ELSE IF Len(bs) = 2 THEN (bs[1] - 192) * 64 + (bs[2] - 128)
    ELSE IF Len(bs) = 3 THEN (bs[1] - 224) * 4096 + (bs[2] - 128) * 64 + (bs[3] - 128)
    ELSE (bs[1] - 240) * 262144 + (bs[2] - 128) * 4096 + (bs[3] - 128) * 64 + (bs[4] - 128)

\* The byte at index i of b, -1 outside it
ByteAt(b, i) == IF i >= 1 /\ i <= Len(b) THEN b[i] ELSE -1

\* Continuation bytes that follow index i, counted up to max (at most 3)
ContinuationRun(b, i, max) ==
    IF max >= 1 /\ IsContinuation(ByteAt(b, i + 1)) THEN
        IF max >= 2 /\ IsContinuation(ByteAt(b, i + 2)) THEN
            IF max >= 3 /\ IsContinuation(ByteAt(b, i + 3)) THEN 3 ELSE 2
        ELSE 1
    ELSE 0

\* A continuation byte at index j belongs to the sequence of the nearest byte
\* before it that is no continuation byte, if that sequence is long enough
LeadOf(b, j) ==
    IF ~IsContinuation(ByteAt(b, j - 1)) THEN j - 1
    ELSE IF ~IsContinuation(ByteAt(b, j - 2)) THEN j - 2
    ELSE IF ~IsContinuation(ByteAt(b, j - 3)) THEN j - 3
    ELSE 0

Claimed(b, j) ==
    LET i == LeadOf(b, j)
    IN  i >= 1 /\ j - i <= SequenceLength(b[i]) - 1

\* A sequence that starts at index i and that the end of b cuts short
Incomplete(b, i) ==
    LET need == SequenceLength(b[i])
        run == ContinuationRun(b, i, need - 1)
    IN  need > 0 /\ run < need - 1 /\ i + run = Len(b)

\* What the decoder emits for the byte at index i: the character of the
\* sequence that starts there, U+FFFD for a malformed one, nothing for a
\* byte inside a sequence or for a sequence cut short by the end of b
Emitted(b, i) ==
    LET need == SequenceLength(b[i])
        run == ContinuationRun(b, i, need - 1)
    IN  IF IsContinuation(b[i])
        THEN IF Claimed(b, i) THEN <<>> ELSE <<ReplacementChar>>
        ELSE IF need = 0 THEN <<ReplacementChar>>
        ELSE IF run = need - 1 THEN <<CodePoint(SubSeq(b, i, i + run))>>
        ELSE IF Incomplete(b, i) THEN <<>>
        ELSE <<ReplacementChar>>

RECURSIVE DecodeRange(_, _, _)
DecodeRange(b, lo, hi) ==
    IF lo > hi THEN <<>>
    ELSE IF \A i \in lo..hi : b[i] < 128 THEN SubSeq(b, lo, hi)
    ELSE IF lo = hi THEN Emitted(b, lo)
    ELSE DecodeRange(b, lo, (lo + hi) \div 2) \o DecodeRange(b, (lo + hi) \div 2 + 1, hi)

\* The incomplete sequence at the end of b, which the decoder buffers
PendingTail(b) ==
    LET leads == {i \in (Len(b) - 2)..Len(b) : i >= 1 /\ Incomplete(b, i)}
    IN  IF leads = {} THEN <<>> ELSE SubSeq(b, Min(leads), Len(b))

\* decoder.decode(value, { stream: true }) with the decoder's buffered bytes
StreamDecode(buffered, value) ==
    LET b == buffered \o value
    IN  [text |-> DecodeRange(b, 1, Len(b)), pending |-> PendingTail(b)]

\* The server's UTF-8 encoding of one code point
EncodeCodePoint(c) ==
    IF c < 128 THEN <<c>>
    ELSE IF c < 2048 THEN <<192 + (c \div 64), 128 + (c % 64)>>
    ELSE IF c < 65536 THEN <<224 + (c \div 4096), 128 + ((c \div 64) % 64), 128 + (c % 64)>>
    ELSE <<240 + (c \div 262144), 128 + ((c \div 4096) % 64), 128 + ((c \div 64) % 64), 128 + (c % 64)>>

RECURSIVE EncodeRange(_, _, _)
EncodeRange(s, lo, hi) ==
    IF lo > hi THEN <<>>
    ELSE IF \A i \in lo..hi : s[i] < 128 THEN SubSeq(s, lo, hi)
    ELSE IF lo = hi THEN EncodeCodePoint(s[lo])
    ELSE EncodeRange(s, lo, (lo + hi) \div 2) \o EncodeRange(s, (lo + hi) \div 2 + 1, hi)

Utf8Encode(s) == EncodeRange(s, 1, Len(s))

\* ------------------------------------------------------------------------
\* JSON.parse, on objects, arrays, strings, integers and the three literals
\* ------------------------------------------------------------------------
JString(s) == [kind |-> "string", str |-> s]
JNumber(n) == [kind |-> "number", num |-> n]
JObject(m) == [kind |-> "object", members |-> m]
JArray(e) == [kind |-> "array", elements |-> e]
JLiteral(k) == [kind |-> k]
Undefined == [kind |-> "undefined"]

ParseFail == [ok |-> FALSE]
Parsed(v, n) == [ok |-> TRUE, val |-> v, next |-> n]

\* The character at index i of s, -1 past its end
At(s, i) == IF i >= 1 /\ i <= Len(s) THEN s[i] ELSE -1

StartsWithAt(s, i, p) ==
    i + Len(p) - 1 <= Len(s) /\ SubSeq(s, i, i + Len(p) - 1) = p

RECURSIVE SkipWs(_, _)
SkipWs(s, i) ==
    IF At(s, i) \in {9, 10, 13, 32} THEN SkipWs(s, i + 1) ELSE i

\* Escape character -> the character it stands for
Escapes == (34 :> 34) @@ (92 :> 92) @@ (47 :> 47) @@ (98 :> 8) @@ (102 :> 12)
           @@ (110 :> 10) @@ (114 :> 13) @@ (116 :> 9)

\* A string's characters from index i (after the opening quote)
RECURSIVE ScanString(_, _, _)
ScanString(s, i, acc) ==
    IF i > Len(s) THEN ParseFail
    ELSE IF s[i] = 34 THEN Parsed(JString(acc), i + 1)
    ELSE IF s[i] = 92 THEN
        IF At(s, i + 1) \in DOMAIN Escapes
        THEN ScanString(s, i + 2, Append(acc, Escapes[s[i + 1]]))
        ELSE ParseFail
    ELSE IF s[i] < 32 THEN ParseFail
    ELSE ScanString(s, i + 1, Append(acc, s[i]))

IsDigit(c) == c >= 48 /\ c <= 57

RECURSIVE ScanDigits(_, _, _)
ScanDigits(s, i, acc) ==
    IF IsDigit(At(s, i)) THEN ScanDigits(s, i + 1, acc * 10 + (s[i] - 48))
    ELSE Parsed(JNumber(acc), i)

\* An integer: -? (0 | [1-9][0-9]*)
ScanNumber(s, i) ==
    LET neg == At(s, i) = 45
        j == IF neg THEN i + 1 ELSE i
        r == IF At(s, j) = 48 THEN Parsed(JNumber(0), j + 1) ELSE ScanDigits(s, j, 0)
    IN  IF ~IsDigit(At(s, j)) THEN ParseFail
        ELSE IF At(s, r.next) \in {46, 69, 101} THEN ParseFail
        ELSE IF neg THEN Parsed(JNumber(0 - r.val.num), r.next) ELSE r

RECURSIVE ParseValue(_, _)
RECURSIVE ParseMembers(_, _, _)
RECURSIVE ParseElements(_, _, _)

ParseValue(s, i0) ==
    LET i == SkipWs(s, i0)
        c == At(s, i)
    IN  IF c = 34 THEN ScanString(s, i + 1, <<>>)
        ELSE IF c = 123 THEN
            IF At(s, SkipWs(s, i + 1)) = 125
            THEN Parsed(JObject(<<>>), SkipWs(s, i + 1) + 1)
            ELSE ParseMembers(s, i + 1, <<>>)
        ELSE IF c = 91 THEN
            IF At(s, SkipWs(s, i + 1)) = 93
            THEN Parsed(JArray(<<>>), SkipWs(s, i + 1) + 1)
            ELSE ParseElements(s, i + 1, <<>>)
        ELSE IF StartsWithAt(s, i, <<110, 117, 108, 108>>) THEN Parsed(JLiteral("null"), i + 4)
        ELSE IF StartsWithAt(s, i, <<116, 114, 117, 101>>) THEN Parsed(JLiteral("true"), i + 4)
        ELSE IF StartsWithAt(s, i, <<102, 97, 108, 115, 101>>) THEN Parsed(JLiteral("false"), i + 5)
        ELSE IF c = 45 \/ IsDigit(c) THEN ScanNumber(s, i)
        ELSE ParseFail

ParseMembers(s, i0, acc) ==
    LET i == SkipWs(s, i0)
        k == IF At(s, i) = 34 THEN ScanString(s, i + 1, <<>>) ELSE ParseFail
        j == SkipWs(s, k.next)
        v == IF At(s, j) = 58 THEN ParseValue(s, j + 1) ELSE ParseFail
        n == SkipWs(s, v.next)
        members == Append(acc, [key |-> k.val.str, val |-> v.val])
    IN  IF ~k.ok THEN ParseFail
        ELSE IF ~v.ok THEN ParseFail
        ELSE IF At(s, n) = 44 THEN ParseMembers(s, n + 1, members)
        ELSE IF At(s, n) = 125 THEN Parsed(JObject(members), n + 1)
        ELSE ParseFail

ParseElements(s, i0, acc) ==
    LET v == ParseValue(s, i0)
        n == SkipWs(s, v.next)
        elements == Append(acc, v.val)
    IN  IF ~v.ok THEN ParseFail
        ELSE IF At(s, n) = 44 THEN ParseElements(s, n + 1, elements)
        ELSE IF At(s, n) = 93 THEN Parsed(JArray(elements), n + 1)
        ELSE ParseFail

\* JSON.parse(data): ok = FALSE stands for the SyntaxError it throws
JSONParse(s) ==
    LET r == ParseValue(s, 1)
    IN  IF r.ok /\ SkipWs(s, r.next) = Len(s) + 1 THEN r ELSE ParseFail

\* ------------------------------------------------------------------------
\* JavaScript values: property access, truthiness, string conversion
\* ------------------------------------------------------------------------
\* v.key on a value that is neither null nor undefined
RECURSIVE Lookup(_, _, _)
Lookup(m, key, i) ==
    IF i = 0 THEN Undefined
    ELSE IF m[i].key = key THEN m[i].val
    ELSE Lookup(m, key, i - 1)

Get(v, key) ==
    IF v.kind = "object" THEN Lookup(v.members, key, Len(v.members)) ELSE Undefined

IsNullish(v) == v.kind \in {"null", "undefined"}

\* v?.key
OptGet(v, key) == IF IsNullish(v) THEN Undefined ELSE Get(v, key)

Falsy(v) ==
    \/ v.kind \in {"null", "undefined", "false"}
    \/ v.kind = "string" /\ v.str = <<>>
    \/ v.kind = "number" /\ v.num = 0

\* String(v), as the + of a string and v converts v
RECURSIVE ToJSString(_)
RECURSIVE JoinElements(_, _)
ToJSString(v) ==
    IF v.kind = "string" THEN v.str
    ELSE IF v.kind = "number" THEN
        IF v.num < 0 THEN <<45>> \o NumberToString(0 - v.num) ELSE NumberToString(v.num)
    ELSE IF v.kind = "object" THEN
        <<91, 111, 98, 106, 101, 99, 116, 32, 79, 98, 106, 101, 99, 116, 93>>  \* '[object Object]'
    ELSE IF v.kind = "array" THEN JoinElements(v.elements, 1)
    ELSE IF v.kind = "true" THEN <<116, 114, 117, 101>>
    ELSE IF v.kind = "false" THEN <<102, 97, 108, 115, 101>>
    ELSE IF v.kind = "null" THEN <<110, 117, 108, 108>>
    ELSE <<117, 110, 100, 101, 102, 105, 110, 101, 100>>                   \* 'undefined'

JoinElements(e, i) ==
    IF i > Len(e) THEN <<>>
    ELSE (IF IsNullish(e[i]) THEN <<>> ELSE ToJSString(e[i]))
         \o (IF i < Len(e) THEN <<44>> ELSE <<>>)
         \o JoinElements(e, i + 1)

\* ------------------------------------------------------------------------
\* State
\* ------------------------------------------------------------------------
VARIABLES
    chatMessages,    \* useState: the transcript, a sequence of [role, content]
    chatInput,       \* useState: the text of the input field
    chatLoading,     \* useState: an exchange is in flight
    shownLoading,    \* chatLoading as of the last render: what the handlers'
                     \* closures and the controls' disabled attributes hold
    apiKey,          \* import.meta.env.VITE_COHERE_KEY is set
    chatPc,          \* where sendChatMessage is suspended: idle, fetch, read
    body,            \* bytes of the response body the reader has not delivered
    pending,         \* bytes the TextDecoder buffers between decode calls
    events,          \* the events the server encoded into the response body
    aligned,         \* every chunk delivered so far ended at the end of a line
    splitChar,       \* some chunk delivered so far ended inside a character
    outcome,         \* how the last exchange ended: none, completed, failed
    thrown,          \* message of the error the last failed exchange caught
    partial,         \* content of the Assistant turn when that error was caught
    status,          \* response.status of the last response, 0 if there was none
    exchanges,       \* submissions accepted so far
    requests         \* chat requests issued so far

chatVars == <<chatMessages, chatInput, chatLoading, shownLoading, apiKey, chatPc,
              body, pending, events, aligned, splitChar, outcome, thrown,
              partial, status, exchanges, requests>>

VARIABLES
    pingResult,      \* useState: the latency result shown, NoResult for null
    testing,         \* useState: a single test is running
    testingAverage,  \* useState: an averaged test is running
    avgProgress,     \* useState: the progress shown during an averaged test
    shownTesting,    \* isAnyTestRunning as of the last render: the disabled
                     \* attribute of both test buttons
    pingPc,          \* where the running test is suspended: idle, single,
                     \* avgPing, avgDelay
    loopI,           \* i of the loop of testAverageConnection
    latencies,       \* latencies of testAverageConnection
    runKind,         \* the test started last: none, single, average
    samples,         \* what each probe of that test returned, in probe order
    started,         \* probes of that test started so far
    delays,          \* inter-probe delays of that test started so far
    runs             \* tests started so far

pingVars == <<pingResult, testing, testingAverage, avgProgress, shownTesting,
              pingPc, loopI, latencies, runKind, samples, started, delays, runs>>

VARIABLES
    ipInfo,          \* useState: the geo record shown, null before the first one
    loading,         \* useState: the geo card shows the spinner
    error,           \* useState: the geo error text, null for none
    mounted,         \* the effect of the first render has run
    lookups          \* the calls of fetchIpInfo in the order they started: where
                     \* each is suspended (fetch, json, done), the body of its
                     \* response, and how it ended

geoVars == <<ipInfo, loading, error, mounted, lookups>>

vars == <<chatVars, pingVars, geoVars>>

\* ------------------------------------------------------------------------
\* The server's side of the chat stream (section 4.2 framing)
\* ------------------------------------------------------------------------
Event(k, t) == [kind |-> k, text |-> t]

Hi == <<72, 105>>                       \* 'Hi'
There == <<32, 116, 104, 101, 114, 101>>   \* ' there'
EAcute == <<233>>                       \* 'é', two bytes in UTF-8

Fragments == {Hi, There, EAcute}

\* delta: a content-delta event with a text; nopath: a content-delta event with
\* no delta.message.content.text; other: an event of another type;
\* done: the [DONE] sentinel; notjson: a payload that is no JSON; blank: the
\* empty line that separates events
EventKinds ==
    {Event("delta", t) : t \in Fragments}
    \cup {Event(k, <<>>) : k \in {"nopath", "other", "done", "notjson", "blank"}}

\* '{"type":"content-delta","index":0,"delta":{"message":{"content":{"text":"'
DeltaHead == <<123, 34, 116, 121, 112, 101, 34, 58, 34, 99, 111, 110, 116, 101, 110, 116, 45, 100, 101, 108, 116, 97, 34, 44, 34, 105, 110, 100, 101, 120, 34, 58, 48, 44, 34, 100, 101, 108, 116, 97, 34, 58, 123, 34, 109, 101, 115, 115, 97, 103, 101, 34, 58, 123, 34, 99, 111, 110, 116, 101, 110, 116, 34, 58, 123, 34, 116, 101, 120, 116, 34, 58, 34>>
\* '"}}}}'
DeltaTail == <<34, 125, 125, 125, 125>>
\* '{"type":"content-delta","index":0,"delta":{}}'
NoPathPayload == <<123, 34, 116, 121, 112, 101, 34, 58, 34, 99, 111, 110, 116, 101, 110, 116, 45, 100, 101, 108, 116, 97, 34, 44, 34, 105, 110, 100, 101, 120, 34, 58, 48, 44, 34, 100, 101, 108, 116, 97, 34, 58, 123, 125, 125>>
\* '{"type":"message-start","id":"m1"}'
OtherPayload == <<123, 34, 116, 121, 112, 101, 34, 58, 34, 109, 101, 115, 115, 97, 103, 101, 45, 115, 116, 97, 114, 116, 34, 44, 34, 105, 100, 34, 58, 34, 109, 49, 34, 125>>
\* 'not-json'
NotJsonPayload == <<110, 111, 116, 45, 106, 115, 111, 110>>

\* The line of an event, as text, without its newline
EventLine(e) ==
    IF e.kind = "delta" THEN DataPrefix \o DeltaHead \o e.text \o DeltaTail
    ELSE IF e.kind = "nopath" THEN DataPrefix \o NoPathPayload
    ELSE IF e.kind = "other" THEN DataPrefix \o OtherPayload
    ELSE IF e.kind = "done" THEN DataPrefix \o DoneSentinel
    ELSE IF e.kind = "notjson" THEN DataPrefix \o NotJsonPayload
    ELSE <<>>

\* The bytes of a response body: each event's line, newline-terminated
RECURSIVE EncodeEvents(_)
EncodeEvents(es) ==
    IF es = <<>> THEN <<>>
    ELSE Utf8Encode(Append(EventLine(Head(es)), NL)) \o EncodeEvents(Tail(es))

\* The text the events of a body carry: the fragments of its delta events in order
RECURSIVE FragmentsOf(_)
FragmentsOf(es) ==
    IF es = <<>> THEN <<>>
    ELSE (IF Head(es).kind = "delta" THEN Head(es).text ELSE <<>>) \o FragmentsOf(Tail(es))

\* All sequences over S of length 0..n
RECURSIVE SeqsUpTo(_, _)
SeqsUpTo(S, n) ==
    IF n = 0 THEN {<<>>}
    ELSE LET shorter == SeqsUpTo(S, n - 1)
         IN  shorter \cup {Append(q, x) : q \in shorter, x \in S}

\* ------------------------------------------------------------------------
\* sendChatMessage
\* ------------------------------------------------------------------------
Turn(r, c) == [role |-> r, content |-> c]

\* What the user types: '', ' ', ' hi ', 'yo'
InputTexts == {<<>>, <<32>>, <<32, 104, 105, 32>>, <<121, 111>>}

\* Response bodies of SpecChat
ChatBodies ==
    { <<Event("delta", Hi), Event("delta", There), Event("done", <<>>)>>,
      <<Event("delta", EAcute)>> }

Statuses == {200, 404, 500}

\* response.ok
ResponseOk(st) == st >= 200 /\ st <= 299

\* 'Failed to fetch'
FailedToFetch == <<70, 97, 105, 108, 101, 100, 32, 116, 111, 32, 102, 101, 116, 99, 104>>
\* 'network error'
NetworkError == <<110, 101, 116, 119, 111, 114, 107, 32, 101, 114, 114, 111, 114>>

\* Faulty variant: the fragment replaces the content
AppendToLastReplacing(msgs, text) ==
    LET lastIdx == Len(msgs)
    IN  IF lastIdx >= 1 /\ msgs[lastIdx].role = "assistant"
        THEN [msgs EXCEPT ![lastIdx].content = text]
        ELSE msgs

\* The updater of a content-delta event: text appended to the last turn if it
\* is the Assistant's
AppendToLast(msgs, text) ==
    LET lastIdx == Len(msgs)
    IN  IF lastIdx >= 1 /\ msgs[lastIdx].role = "assistant"
        THEN [msgs EXCEPT ![lastIdx].content = @ \o text]
        ELSE msgs

\* Faulty variant: the error appended to the content
OverwriteLastAppending(msgs, message) ==
    LET lastIdx == Len(msgs)
    IN  IF lastIdx >= 1 /\ msgs[lastIdx].role = "assistant"
        THEN [msgs EXCEPT ![lastIdx].content = @ \o ErrorPrefix \o message]
        ELSE msgs

\* Faulty variant: the error written to every turn of the Assistant
OverwriteEveryAssistant(msgs, message) ==
    [i \in DOMAIN msgs |->
        IF msgs[i].role = "assistant"
        THEN [msgs[i] EXCEPT !.content = ErrorPrefix \o message]
        ELSE msgs[i]]

\* The updater of the catch block: the last turn's content replaced
OverwriteLast(msgs, message) ==
    LET lastIdx == Len(msgs)
    IN  IF lastIdx >= 1 /\ msgs[lastIdx].role = "assistant"
        THEN [msgs EXCEPT ![lastIdx].content = ErrorPrefix \o message]
        ELSE msgs

\* The text one line of a chunk appends: ok = FALSE if the line appends nothing
NoText == [ok |-> FALSE, syntaxError |-> FALSE]
SyntaxError == [ok |-> FALSE, syntaxError |-> TRUE]
LineText(line) ==
    IF ~StartsWith(line, DataPrefix) THEN NoText
    ELSE LET data == Slice(line, 6)
             parsed == JSONParse(data)
             type == Get(parsed.val, KeyType)
             text == OptGet(OptGet(OptGet(Get(parsed.val, KeyDelta), KeyMessage),
                                   KeyContent), KeyText)
         IN  IF data = DoneSentinel THEN NoText
             ELSE IF ~parsed.ok THEN SyntaxError         \* caught by the inner try
             ELSE IF IsNullish(parsed.val) THEN NoText   \* TypeError, caught
             ELSE IF ~(type.kind = "string" /\ type.str = ContentDelta) THEN NoText
             ELSE [ok |-> TRUE, syntaxError |-> FALSE,
                   text |-> IF Falsy(text) THEN <<>> ELSE ToJSString(text)]

\* Faulty variant: the try around the loop, so that a SyntaxError ends the chunk
RECURSIVE ProcessLinesAborting(_, _, _)
ProcessLinesAborting(msgs, lines, i) ==
    IF i > Len(lines) THEN msgs
    ELSE LET t == LineText(lines[i])
         IN  IF t.syntaxError THEN msgs
             ELSE ProcessLinesAborting(IF t.ok THEN AppendToLast(msgs, t.text) ELSE msgs,
                                       lines, i + 1)

\* for (const line of lines): the transcript after the lines from index i on
RECURSIVE ProcessLines(_, _, _)
ProcessLines(msgs, lines, i) ==
    IF i > Len(lines) THEN msgs
    ELSE LET t == LineText(lines[i])
         IN  ProcessLines(IF t.ok THEN AppendToLast(msgs, t.text) ELSE msgs, lines, i + 1)

InputDisabled == shownLoading
ButtonDisabled == shownLoading \/ Trim(chatInput) = <<>>

\* What the catch block reports of what was thrown
CaughtMessage(err) == IF err.isError THEN err.message ELSE FailedToConnect

Error(m) == [isError |-> TRUE, message |-> m]

LastContent(msgs) == IF msgs = <<>> THEN <<>> ELSE msgs[Len(msgs)].content

\* Faulty variant: the Assistant turn created with the placeholder the view shows
OpenedWithPlaceholder(msgs, userMessage) ==
    msgs \o <<Turn("user", userMessage), Turn("assistant", <<46, 46, 46>>)>>

\* The two turns sendChatMessage appends to the transcript msgs
Opened(msgs, userMessage) ==
    msgs \o <<Turn("user", userMessage), Turn("assistant", <<>>)>>

\* Faulty variant: the in-flight flag never set
LoadingOnSendOmitted == FALSE

\* setChatLoading(true)
LoadingOnSend == TRUE

\* The guard of sendChatMessage, on the values its closure holds
Rejected == Trim(chatInput) = <<>> \/ shownLoading

\* Faulty variant: no finally block, the in-flight flag left set
FailKeepingLoading(err) ==
    /\ chatMessages' = OverwriteLast(chatMessages, CaughtMessage(err))
    /\ chatLoading' = chatLoading
    /\ chatPc' = "idle"
    /\ outcome' = "failed"
    /\ thrown' = CaughtMessage(err)
    /\ partial' = LastContent(chatMessages)

\* catch and finally of sendChatMessage, reached from an await
Fail(err) ==
    /\ chatMessages' = OverwriteLast(chatMessages, CaughtMessage(err))
    /\ chatLoading' = FALSE
    /\ chatPc' = "idle"
    /\ outcome' = "failed"
    /\ thrown' = CaughtMessage(err)
    /\ partial' = LastContent(chatMessages)

\* onChange of the input field
TypeInput ==
    /\ ~InputDisabled
    /\ \E v \in InputTexts : v # chatInput /\ chatInput' = v
    /\ UNCHANGED <<chatMessages, chatLoading, shownLoading, apiKey, chatPc, body,
                   pending, events, aligned, splitChar, outcome, thrown, partial,
                   status, exchanges, requests>>
    /\ UNCHANGED <<pingVars, geoVars>>

\* sendChatMessage up to its first await; React renders at the end of the
\* event that called it
SendChatMessage ==
    IF Rejected THEN UNCHANGED chatVars
    ELSE LET userMessage == Trim(chatInput)
             opened == Opened(chatMessages, userMessage)
         IN  /\ exchanges < MaxExchanges
             /\ exchanges' = exchanges + 1
             /\ chatInput' = <<>>
             /\ body' = <<>>
             /\ pending' = <<>>
             /\ events' = <<>>
             /\ aligned' = TRUE
             /\ splitChar' = FALSE
             /\ status' = 0
             /\ partial' = <<>>
             /\ UNCHANGED apiKey
             /\ IF ~apiKey
                THEN /\ chatMessages' = OverwriteLast(opened, CaughtMessage(Error(KeyNotSet)))
                     /\ chatLoading' = FALSE
                     /\ shownLoading' = FALSE
                     /\ chatPc' = "idle"
                     /\ outcome' = "failed"
                     /\ thrown' = CaughtMessage(Error(KeyNotSet))
                     /\ requests' = requests
                ELSE /\ chatMessages' = opened
                     /\ chatLoading' = LoadingOnSend
                     /\ shownLoading' = LoadingOnSend
                     /\ chatPc' = "fetch"
                     /\ outcome' = "none"
                     /\ thrown' = <<>>
                     /\ requests' = requests + 1

\* handleKeyDown: Enter in the input field
KeyDownEnter == ~InputDisabled /\ SendChatMessage /\ UNCHANGED <<pingVars, geoVars>>

\* onClick of the send button
ClickSend == ~ButtonDisabled /\ SendChatMessage /\ UNCHANGED <<pingVars, geoVars>>

\* await fetch(...) rejects
FetchRejects ==
    /\ chatPc = "fetch"
    /\ Fail(Error(FailedToFetch))
    /\ UNCHANGED <<chatInput, shownLoading, apiKey, body, pending, events, aligned, splitChar,
                   status, exchanges, requests>>
    /\ UNCHANGED <<pingVars, geoVars>>

\* the response is not ok
FetchRespondsNotOk ==
    /\ chatPc = "fetch"
    /\ \E s \in Statuses :
        /\ ~ResponseOk(s)
        /\ status' = s
        /\ Fail(Error(ApiErrorPrefix \o NumberToString(s)))
    /\ UNCHANGED <<chatInput, shownLoading, apiKey, body, pending, events, aligned, splitChar,
                   exchanges, requests>>
    /\ UNCHANGED <<pingVars, geoVars>>

\* the response is ok and has no body
FetchRespondsNoBody ==
    /\ chatPc = "fetch"
    /\ \E s \in Statuses :
        /\ ResponseOk(s)
        /\ status' = s
        /\ Fail(Error(NoResponseBody))
    /\ UNCHANGED <<chatInput, shownLoading, apiKey, body, pending, events, aligned, splitChar,
                   exchanges, requests>>
    /\ UNCHANGED <<pingVars, geoVars>>

\* the response is ok and has a body: the stream loop starts
FetchRespondsStream ==
    /\ chatPc = "fetch"
    /\ \E s \in Statuses, es \in ChatBodies :
        /\ ResponseOk(s)
        /\ status' = s
        /\ events' = es
        /\ body' = EncodeEvents(es)
    /\ pending' = <<>>
    /\ aligned' = TRUE
    /\ splitChar' = FALSE
    /\ chatPc' = "read"
    /\ UNCHANGED <<chatMessages, chatInput, chatLoading, shownLoading, apiKey,
                   outcome, thrown, partial, exchanges, requests>>
    /\ UNCHANGED <<pingVars, geoVars>>

\* One turn of the stream loop with a chunk of the next n bytes
Deliver(n) ==
    LET value == SubSeq(body, 1, n)
        decoded == StreamDecode(pending, value)
        lines == Split(decoded.text, NL)
    IN  /\ chatMessages' = ProcessLines(chatMessages, lines, 1)
        /\ pending' = decoded.pending
        /\ body' = SubSeq(body, n + 1, Len(body))
        /\ aligned' = (aligned /\ value[n] = NL)
        /\ splitChar' = (splitChar \/ decoded.pending # <<>>)
        /\ UNCHANGED <<chatInput, chatLoading, shownLoading, apiKey, chatPc, events,
                       outcome, thrown, partial, status, exchanges, requests>>

\* reader.read() delivers a chunk: any non-empty prefix of what remains
ReadChunk ==
    /\ chatPc = "read"
    /\ \E n \in 1..Len(body) : Deliver(n)
    /\ UNCHANGED <<pingVars, geoVars>>

\* reader.read() delivers a chunk of complete lines
ReadLines ==
    /\ chatPc = "read"
    /\ \E n \in {i \in 1..Len(body) : body[i] = NL} : Deliver(n)
    /\ UNCHANGED <<pingVars, geoVars>>

\* reader.read() reports the end of the stream: break, finally
ReadDone ==
    /\ chatPc = "read"
    /\ body = <<>>
    /\ chatLoading' = FALSE
    /\ chatPc' = "idle"
    /\ outcome' = "completed"
    /\ UNCHANGED <<chatMessages, chatInput, shownLoading, apiKey, body, pending,
                   events, aligned, splitChar, thrown, partial, status, exchanges, requests>>
    /\ UNCHANGED <<pingVars, geoVars>>

\* reader.read() rejects
ReadRejects ==
    /\ chatPc = "read"
    /\ Fail(Error(NetworkError))
    /\ UNCHANGED <<chatInput, shownLoading, apiKey, body, pending, events, aligned, splitChar,
                   status, exchanges, requests>>
    /\ UNCHANGED <<pingVars, geoVars>>

\* React renders the state updates made after an await
RenderChat ==
    /\ shownLoading # chatLoading
    /\ shownLoading' = chatLoading
    /\ UNCHANGED <<chatMessages, chatInput, chatLoading, apiKey, chatPc, body,
                   pending, events, aligned, splitChar, outcome, thrown, partial,
                   status, exchanges, requests>>
    /\ UNCHANGED <<pingVars, geoVars>>

\* ------------------------------------------------------------------------
\* singlePing, testConnection, testAverageConnection
\* ------------------------------------------------------------------------
Null == -1                   \* null, where a number may stand
TEST_COUNT == 5
NoResult == [status |-> "none"]
Url == "cloudflare.com"

\* Faulty variant: Math.floor
MathRoundTruncating(num, den) == num \div den

\* Math.round of the quotient of two non-negative integers
MathRound(num, den) == (2 * num + den) \div (2 * den)

\* What singlePing returns: the fetch rejects, or responds not ok, or responds
\* ok after h half-milliseconds between the two readings of performance.now()
ProbeOutcomes ==
    {[kind |-> k, elapsed |-> 0] : k \in {"rejects", "notOk"}}
    \cup {[kind |-> "ok", elapsed |-> h] : h \in 0..MaxElapsed}

SinglePing(o) == IF o.kind = "ok" THEN MathRound(o.elapsed, 2) ELSE Null

RECURSIVE Sum(_)
Sum(q) == IF q = <<>> THEN 0 ELSE Head(q) + Sum(Tail(q))

PendingResult == [url |-> Url, latency |-> Null, status |-> "pending"]
PendingAverage ==
    [url |-> Url, latency |-> Null, status |-> "pending", isAverage |-> TRUE,
     testCount |-> TEST_COUNT]
SuccessResult(latency) == [url |-> Url, latency |-> latency, status |-> "success"]
ErrorResult == [url |-> Url, latency |-> Null, status |-> "error"]
AverageSuccess(ls) ==
    [url |-> Url, latency |-> MathRound(Sum(ls), Len(ls)), status |-> "success",
     isAverage |-> TRUE, testCount |-> Len(ls), allLatencies |-> ls]
\* Faulty variant: the error result built from the pending one
AverageErrorKeepingCount ==
    [url |-> Url, latency |-> Null, status |-> "error", isAverage |-> TRUE,
     testCount |-> TEST_COUNT]

AverageError == [url |-> Url, latency |-> Null, status |-> "error", isAverage |-> TRUE]

\* The result testAverageConnection sets after its loop
AverageResult(ls) == IF Len(ls) > 0 THEN AverageSuccess(ls) ELSE AverageError

\* Faulty variant: the 0-based index
ProgressAtZeroBased(i) == i

\* The value setAvgProgress is given in iteration i of the loop
ProgressAt(i) == i + 1

\* Faulty variant: a delay after the last probe too
DelayAfterEvery(i) == i < TEST_COUNT

\* The loop sleeps after iteration i
DelayAfter(i) == i < TEST_COUNT - 1

\* latencies after a probe returned latency
Accumulate(ls, latency) == IF latency # Null THEN Append(ls, latency) ELSE ls

\* Faulty variant: the buttons without the disabled attribute
TestButtonsNeverDisabled == FALSE

\* Both test buttons: disabled={isAnyTestRunning}
TestButtonsDisabled == shownTesting

\* onClick of the Ping button: testConnection up to its await
TestConnection ==
    /\ ~TestButtonsDisabled
    /\ runs < MaxRuns
    /\ runs' = runs + 1
    /\ testing' = TRUE
    /\ shownTesting' = TRUE
    /\ pingResult' = PendingResult
    /\ pingPc' = "single"
    /\ runKind' = "single"
    /\ samples' = <<>>
    /\ started' = 1
    /\ delays' = 0
    /\ UNCHANGED <<testingAverage, avgProgress, loopI, latencies>>
    /\ UNCHANGED <<chatVars, geoVars>>

\* testConnection after await singlePing()
SingleResolves ==
    /\ pingPc = "single"
    /\ \E o \in ProbeOutcomes :
        /\ pingResult' = IF SinglePing(o) # Null THEN SuccessResult(SinglePing(o))
                         ELSE ErrorResult
        /\ samples' = Append(samples, SinglePing(o))
    /\ testing' = FALSE
    /\ pingPc' = "idle"
    /\ UNCHANGED <<testingAverage, avgProgress, shownTesting, loopI, latencies,
                   runKind, started, delays, runs>>
    /\ UNCHANGED <<chatVars, geoVars>>

\* onClick of the Avg button: testAverageConnection up to the first await
TestAverageConnection ==
    /\ ~TestButtonsDisabled
    /\ runs < MaxRuns
    /\ runs' = runs + 1
    /\ testingAverage' = TRUE
    /\ shownTesting' = TRUE
    /\ pingResult' = PendingAverage
    /\ latencies' = <<>>
    /\ loopI' = 0
    /\ avgProgress' = ProgressAt(0)
    /\ pingPc' = "avgPing"
    /\ runKind' = "average"
    /\ samples' = <<>>
    /\ started' = 1
    /\ delays' = 0
    /\ UNCHANGED testing
    /\ UNCHANGED <<chatVars, geoVars>>

\* The loop after iteration loopI, with the latencies ls: the next iteration
\* up to its await or, after the last one, the rest of testAverageConnection
LoopNext(ls) ==
    IF loopI + 1 < TEST_COUNT
    THEN /\ loopI' = loopI + 1
         /\ avgProgress' = ProgressAt(loopI + 1)
         /\ started' = started + 1
         /\ pingPc' = "avgPing"
         /\ UNCHANGED <<pingResult, testingAverage>>
    ELSE /\ pingResult' = AverageResult(ls)
         /\ testingAverage' = FALSE
         /\ avgProgress' = 0
         /\ pingPc' = "idle"
         /\ UNCHANGED <<loopI, started>>

\* testAverageConnection after await singlePing(): the rest of iteration loopI
AverageProbeResolves ==
    /\ pingPc = "avgPing"
    /\ \E o \in ProbeOutcomes :
        /\ latencies' = Accumulate(latencies, SinglePing(o))
        /\ samples' = Append(samples, SinglePing(o))
    /\ IF DelayAfter(loopI)
       THEN /\ pingPc' = "avgDelay"
            /\ delays' = delays + 1
            /\ UNCHANGED <<pingResult, testingAverage, avgProgress, loopI, started>>
       ELSE /\ LoopNext(latencies')
            /\ UNCHANGED delays
    /\ UNCHANGED <<testing, shownTesting, runKind, runs>>
    /\ UNCHANGED <<chatVars, geoVars>>

\* the 200 ms timer fires
DelayElapses ==
    /\ pingPc = "avgDelay"
    /\ LoopNext(latencies)
    /\ UNCHANGED <<testing, shownTesting, latencies, runKind, samples, delays, runs>>
    /\ UNCHANGED <<chatVars, geoVars>>

\* React renders the state updates made after an await
RenderPing ==
    /\ shownTesting # (testing \/ testingAverage)
    /\ shownTesting' = (testing \/ testingAverage)
    /\ UNCHANGED <<pingResult, testing, testingAverage, avgProgress, pingPc, loopI,
                   latencies, runKind, samples, started, delays, runs>>
    /\ UNCHANGED <<chatVars, geoVars>>

\* ------------------------------------------------------------------------
\* The geo lookup: fetchIpInfo and the geo card
\* ------------------------------------------------------------------------
\* 'Failed to fetch IP information'
FailedToFetchIpInformation ==
    <<70, 97, 105, 108, 101, 100, 32, 116, 111, 32, 102, 101, 116, 99, 104, 32,
      73, 80, 32, 105, 110, 102, 111, 114, 109, 97, 116, 105, 111, 110>>
\* 'Failed to fetch IP info'
FailedToFetchIpInfo ==
    <<70, 97, 105, 108, 101, 100, 32, 116, 111, 32, 102, 101, 116, 99, 104, 32,
      73, 80, 32, 105, 110, 102, 111>>
ApiError == <<65, 80, 73, 32, 101, 114, 114, 111, 114>>                 \* 'API error'
Unknown == <<85, 110, 107, 110, 111, 119, 110>>                         \* 'Unknown'
KeySuccess == <<115, 117, 99, 99, 101, 115, 115>>                       \* success

\* Bodies ipwho.is can answer with
\* {"success":false,"message":"Reserved range"}
ReservedRangeBody ==
    <<123, 34, 115, 117, 99, 99, 101, 115, 115, 34, 58, 102, 97, 108, 115, 101,
      44, 34, 109, 101, 115, 115, 97, 103, 101, 34, 58, 34, 82, 101, 115, 101,
      114, 118, 101, 100, 32, 114, 97, 110, 103, 101, 34, 125>>
\* {"success":false}
NoMessageBody ==
    <<123, 34, 115, 117, 99, 99, 101, 115, 115, 34, 58, 102, 97, 108, 115, 101, 125>>
\* {"success":true,"ip":"1.1.1.1","country":"Canada","city":"Ottawa",
\*  "region":"Ontario","connection":{"isp":"Bell"}}
OttawaBody ==
    <<123, 34, 115, 117, 99, 99, 101, 115, 115, 34, 58, 116, 114, 117, 101, 44,
      34, 105, 112, 34, 58, 34, 49, 46, 49, 46, 49, 46, 49, 34, 44, 34, 99, 111,
      117, 110, 116, 114, 121, 34, 58, 34, 67, 97, 110, 97, 100, 97, 34, 44, 34,
      99, 105, 116, 121, 34, 58, 34, 79, 116, 116, 97, 119, 97, 34, 44, 34, 114,
      101, 103, 105, 111, 110, 34, 58, 34, 79, 110, 116, 97, 114, 105, 111, 34,
      44, 34, 99, 111, 110, 110, 101, 99, 116, 105, 111, 110, 34, 58, 123, 34,
      105, 115, 112, 34, 58, 34, 66, 101, 108, 108, 34, 125, 125>>
\* {"success":true,"ip":"2.2.2.2","country":"France","city":"Paris",
\*  "region":"IDF","connection":{"org":"Free"}}
ParisBody ==
    <<123, 34, 115, 117, 99, 99, 101, 115, 115, 34, 58, 116, 114, 117, 101, 44,
      34, 105, 112, 34, 58, 34, 50, 46, 50, 46, 50, 46, 50, 34, 44, 34, 99, 111,
      117, 110, 116, 114, 121, 34, 58, 34, 70, 114, 97, 110, 99, 101, 34, 44, 34,
      99, 105, 116, 121, 34, 58, 34, 80, 97, 114, 105, 115, 34, 44, 34, 114, 101,
      103, 105, 111, 110, 34, 58, 34, 73, 68, 70, 34, 44, 34, 99, 111, 110, 110,
      101, 99, 116, 105, 111, 110, 34, 58, 123, 34, 111, 114, 103, 34, 58, 34,
      70, 114, 101, 101, 34, 125, 125>>
GeoBodies ==
    { ReservedRangeBody, NoMessageBody, OttawaBody, ParisBody,
      <<60, 104, 116, 109, 108, 62>>,                                   \* <html>
      <<110, 117, 108, 108>> }                                          \* null

NoInfo == JLiteral("null")
NoError == JLiteral("null")

\* a || b
Or(a, b) == IF Falsy(a) THEN b ELSE a

\* The object passed to setIpInfo
IpInfo(data) ==
    LET connection == Get(data, <<99, 111, 110, 110, 101, 99, 116, 105, 111, 110>>)
    IN  [ip |-> Get(data, <<105, 112>>),
         country |-> Get(data, <<99, 111, 117, 110, 116, 114, 121>>),
         city |-> Get(data, <<99, 105, 116, 121>>),
         region |-> Get(data, <<114, 101, 103, 105, 111, 110>>),
         org |-> Or(OptGet(connection, <<105, 115, 112>>),                  \* isp
                    Or(OptGet(connection, <<111, 114, 103>>),               \* org
                       JString(Unknown)))]

\* What the try block of fetchIpInfo does with the text of an ok response:
\* the exception it throws (its name and message), or the record it sets
ReadData(text) ==
    LET r == JSONParse(text)
        data == r.val
    IN  IF ~r.ok THEN [threw |-> TRUE, name |-> "SyntaxError", message |-> <<>>]
        ELSE IF IsNullish(data) THEN [threw |-> TRUE, name |-> "TypeError", message |-> <<>>]
        ELSE IF Falsy(Get(data, KeySuccess))
        THEN [threw |-> TRUE, name |-> "Error",
              message |-> ToJSString(Or(Get(data, KeyMessage), JString(ApiError)))]
        ELSE [threw |-> FALSE, info |-> IpInfo(data)]

\* What the geo card shows
GeoCard ==
    IF loading THEN "spinner"
    ELSE IF ~Falsy(error) THEN "error"
    ELSE IF ipInfo # NoInfo THEN "record"
    ELSE "nothing"

Lookup0 == [pc |-> "fetch", body |-> <<>>, threw |-> FALSE, name |-> "", message |-> <<>>]

\* fetchIpInfo up to its first await
FetchIpInfo ==
    /\ Len(lookups) < MaxLookups
    /\ loading' = TRUE
    /\ error' = NoError
    /\ lookups' = Append(lookups, Lookup0)
    /\ UNCHANGED ipInfo

\* useEffect(() => { fetchIpInfo(); }, [])
MountEffect ==
    /\ ~mounted
    /\ mounted' = TRUE
    /\ FetchIpInfo
    /\ UNCHANGED <<chatVars, pingVars>>

\* onClick of the refresh button
ClickRefresh ==
    /\ mounted
    /\ FetchIpInfo
    /\ UNCHANGED mounted
    /\ UNCHANGED <<chatVars, pingVars>>

\* onClick of the retry button of the error view
ClickRetry ==
    /\ mounted
    /\ GeoCard = "error"
    /\ FetchIpInfo
    /\ UNCHANGED mounted
    /\ UNCHANGED <<chatVars, pingVars>>

\* catch and finally of call i of fetchIpInfo
Catch(i, name, message) ==
    /\ error' = JString(FailedToFetchIpInformation)
    /\ loading' = FALSE
    /\ lookups' = [lookups EXCEPT ![i] = [@ EXCEPT !.pc = "done", !.threw = TRUE,
                                                   !.name = name, !.message = message]]
    /\ UNCHANGED <<ipInfo, mounted>>

\* await fetch('https://ipwho.is/') rejects
GeoFetchRejects ==
    /\ \E i \in DOMAIN lookups :
        /\ lookups[i].pc = "fetch"
        /\ Catch(i, "TypeError", <<>>)
    /\ UNCHANGED <<chatVars, pingVars>>

\* the response is not ok
GeoRespondsNotOk ==
    /\ \E i \in DOMAIN lookups :
        /\ lookups[i].pc = "fetch"
        /\ Catch(i, "Error", FailedToFetchIpInfo)
    /\ UNCHANGED <<chatVars, pingVars>>

\* the response is ok: await response.json()
GeoResponds ==
    /\ \E i \in DOMAIN lookups, text \in GeoBodies :
        /\ lookups[i].pc = "fetch"
        /\ lookups' = [lookups EXCEPT ![i] = [@ EXCEPT !.pc = "json", !.body = text]]
    /\ UNCHANGED <<ipInfo, loading, error, mounted>>
    /\ UNCHANGED <<chatVars, pingVars>>

\* response.json() settles: the rest of the try block, catch, finally
GeoJsonSettles ==
    /\ \E i \in DOMAIN lookups :
        /\ lookups[i].pc = "json"
        /\ LET read == ReadData(lookups[i].body)
           IN  IF read.threw
               THEN Catch(i, read.name, read.message)
               ELSE /\ ipInfo' = read.info
                    /\ loading' = FALSE
                    /\ lookups' = [lookups EXCEPT ![i] = [@ EXCEPT !.pc = "done"]]
                    /\ UNCHANGED <<error, mounted>>
    /\ UNCHANGED <<chatVars, pingVars>>

\* ------------------------------------------------------------------------
\* Specifications
\* ------------------------------------------------------------------------
InitChat ==
    /\ chatMessages = <<>>
    /\ chatInput = <<>>
    /\ chatLoading = FALSE
    /\ shownLoading = FALSE
    /\ apiKey \in BOOLEAN
    /\ chatPc = "idle"
    /\ body = <<>>
    /\ pending = <<>>
    /\ events = <<>>
    /\ aligned = TRUE
    /\ splitChar = FALSE
    /\ outcome = "none"
    /\ thrown = <<>>
    /\ partial = <<>>
    /\ status = 0
    /\ exchanges = 0
    /\ requests = 0

InitPing ==
    /\ pingResult = NoResult
    /\ testing = FALSE
    /\ testingAverage = FALSE
    /\ avgProgress = 0
    /\ shownTesting = FALSE
    /\ pingPc = "idle"
    /\ loopI = 0
    /\ latencies = <<>>
    /\ runKind = "none"
    /\ samples = <<>>
    /\ started = 0
    /\ delays = 0
    /\ runs = 0

InitGeo ==
    /\ ipInfo = NoInfo
    /\ loading = TRUE
    /\ error = NoError
    /\ mounted = FALSE
    /\ lookups = <<>>

\* An exchange whose response has arrived with the events es
Streaming(es) ==
    /\ chatMessages = <<Turn("user", <<121, 111>>), Turn("assistant", <<>>)>>
    /\ chatInput = <<>>
    /\ chatLoading = TRUE
    /\ shownLoading = TRUE
    /\ apiKey = TRUE
    /\ chatPc = "read"
    /\ events = es
    /\ body = EncodeEvents(es)
    /\ pending = <<>>
    /\ aligned = TRUE
    /\ splitChar = FALSE
    /\ outcome = "none"
    /\ thrown = <<>>
    /\ partial = <<>>
    /\ status = 200
    /\ exchanges = 1
    /\ requests = 1

\* The chat tab: exchanges from submission to completion or failure, the
\* response body delivered in chunks of complete lines
Init == InitChat /\ InitPing /\ InitGeo

NextChat ==
    \/ TypeInput
    \/ KeyDownEnter
    \/ ClickSend
    \/ FetchRejects
    \/ FetchRespondsNotOk
    \/ FetchRespondsNoBody
    \/ FetchRespondsStream
    \/ ReadLines
    \/ ReadDone
    \/ ReadRejects
    \/ RenderChat

SpecChat == Init /\ [][NextChat]_vars

\* React renders every state update it has been given
SpecChatFair == SpecChat /\ WF_vars(RenderChat)

\* The stream loop on any body of up to MaxEvents events, delivered in chunks
\* of complete lines
InitStream ==
    /\ \E es \in SeqsUpTo(EventKinds, MaxEvents) : Streaming(es)
    /\ InitPing
    /\ InitGeo

NextStream ==
    \/ ReadLines
    \/ ReadDone

SpecStream == InitStream /\ [][NextStream]_vars

\* The stream loop on bodies cut into chunks at any byte
ChunkBodies ==
    { <<Event("delta", Hi), Event("delta", There), Event("done", <<>>)>>,
      <<Event("delta", EAcute)>>,
      <<Event("delta", Hi), Event("notjson", <<>>), Event("delta", EAcute)>> }

InitChunks ==
    /\ \E es \in ChunkBodies : Streaming(es)
    /\ InitPing
    /\ InitGeo

NextChunks ==
    \/ ReadChunk
    \/ ReadDone

SpecChunks == InitChunks /\ [][NextChunks]_vars

\* The latency tests
NextPing ==
    \/ TestConnection
    \/ SingleResolves
    \/ TestAverageConnection
    \/ AverageProbeResolves
    \/ DelayElapses
    \/ RenderPing

SpecPing == Init /\ [][NextPing]_vars

\* The geo card: the lookup of the first render and the lookups of refresh
\* and retry
NextGeo ==
    \/ MountEffect
    \/ ClickRefresh
    \/ ClickRetry
    \/ GeoFetchRejects
    \/ GeoRespondsNotOk
    \/ GeoResponds
    \/ GeoJsonSettles

SpecGeo == Init /\ [][NextGeo]_vars

\* ------------------------------------------------------------------------
\* Properties
\* ------------------------------------------------------------------------
InFlight == chatPc # "idle"

\* C1: at most one exchange is in flight. While an exchange has not reached
\* its end the in-flight flag is set, in the state and in what the handlers
\* and controls see, and no step appends a turn or issues a request.
C1_OneExchangeInFlight ==
    [][InFlight => /\ chatLoading /\ shownLoading
                   /\ Len(chatMessages') = Len(chatMessages)
                   /\ requests' = requests]_vars

\* C1 witness: the second exchange is streaming, its controls disabled and
\* the guard of sendChatMessage rejecting
C1_Witness ==
    /\ chatPc = "read"
    /\ exchanges = 2
    /\ LastContent(chatMessages) # <<>>
    /\ InputDisabled /\ ButtonDisabled /\ Rejected

\* C2: while a request is in flight the transcript ends with a User turn and
\* its Assistant turn, and the Assistant turn is empty until the first chunk
\* or error.
C2_PairedTurns ==
    InFlight =>
        LET n == Len(chatMessages)
        IN  /\ n >= 2
            /\ chatMessages[n - 1].role = "user"
            /\ chatMessages[n].role = "assistant"
            /\ (body = EncodeEvents(events) => chatMessages[n].content = <<>>)

\* C2 witness: the second exchange has streamed some text
C2_Witness ==
    /\ chatPc = "read"
    /\ Len(chatMessages) = 4
    /\ chatMessages[3].role = "user"
    /\ chatMessages[4].content = Hi

\* 'Error: API error: <status>' for the statuses that are not ok
ApiErrorContent ==
    (404 :> <<69, 114, 114, 111, 114, 58, 32, 65, 80, 73, 32, 101, 114, 114, 111, 114, 58, 32, 52, 48, 52>>)
    @@ (500 :> <<69, 114, 114, 111, 114, 58, 32, 65, 80, 73, 32, 101, 114, 114, 111, 114, 58, 32, 53, 48, 48>>)

\* 'Error: VITE_COHERE_KEY not set'
KeyNotSetContent == <<69, 114, 114, 111, 114, 58, 32, 86, 73, 84, 69, 95, 67, 79, 72, 69, 82, 69, 95, 75, 69, 89, 32, 110, 111, 116, 32, 115, 101, 116>>

\* C3: after a failed exchange the Assistant turn's content is 'Error: ' and
\* the message of the failure, whatever had been streamed; for a status that
\* is not ok it is 'Error: API error: <status>'.
C3_ErrorReplacesContent ==
    outcome = "failed" =>
        /\ LastContent(chatMessages) = ErrorPrefix \o thrown
        /\ thrown \in {KeyNotSet, FailedToFetch, NoResponseBody, NetworkError}
                      \cup {ApiErrorPrefix \o NumberToString(s) : s \in Statuses}
        /\ (status \in DOMAIN ApiErrorContent =>
                LastContent(chatMessages) = ApiErrorContent[status])
        /\ (~apiKey => LastContent(chatMessages) = KeyNotSetContent)

\* C3 witness: a read failed after text had been streamed
C3_Witness ==
    /\ outcome = "failed"
    /\ thrown = NetworkError
    /\ partial = Hi \o There

\* 'Hi there'
HiThere == <<72, 105, 32, 116, 104, 101, 114, 101>>

\* C4: a body delivered in chunks of complete lines leaves, at the end of the
\* stream, the fragments of its content-delta events in order; 'Hi', ' there',
\* [DONE] leaves 'Hi there'.
C4_FragmentsConcatenated ==
    (outcome = "completed" /\ aligned) =>
        /\ LastContent(chatMessages) = FragmentsOf(events)
        /\ (events = <<Event("delta", Hi), Event("delta", There), Event("done", <<>>)>>
                => LastContent(chatMessages) = HiThere)

\* C4 witness: the stream 'Hi', ' there', [DONE] has ended
C4_Witness ==
    /\ outcome = "completed"
    /\ aligned
    /\ events = <<Event("delta", Hi), Event("delta", There), Event("done", <<>>)>>
    /\ LastContent(chatMessages) = HiThere

IsJson(e) == e.kind # "notjson"

\* C5: lines whose payload is no JSON do not fail the exchange, and the
\* content at the end of the stream is that of the body without them.
C5_NotJsonSkipped ==
    /\ outcome # "failed"
    /\ thrown = <<>>
    /\ (outcome = "completed" =>
            LastContent(chatMessages) = FragmentsOf(SelectSeq(events, IsJson)))

\* C5 witness: 'Hi', not-json, ' there' has ended with 'Hi there'
C5_Witness ==
    /\ outcome = "completed"
    /\ events = <<Event("delta", Hi), Event("notjson", <<>>), Event("delta", There)>>
    /\ LastContent(chatMessages) = HiThere

\* The number of occurrences of c in s
Count(s, c) == Cardinality({i \in 1..Len(s) : s[i] = c})

\* C6, as claimed: when a chunk ended inside a multi-byte character, the
\* content at the end of the stream still holds every such character of the
\* body's fragments.
C6_SplitCharacterKept ==
    (outcome = "completed" /\ splitChar) =>
        Count(LastContent(chatMessages), 233) = Count(FragmentsOf(events), 233)

Finished == Len(samples)
Successes == SelectSeq(samples, LAMBDA x : x # Null)
AverageEnded == runKind = "average" /\ pingPc = "idle"
Max(S) == CHOOSE x \in S : \A y \in S : x >= y
Range(q) == {q[i] : i \in 1..Len(q)}

\* C7: an averaged run with a successful probe ends with status success,
\* testCount the number of successful probes, allLatencies the successful
\* samples in probe order, latency the rounded mean (within half a
\* millisecond of sum / count, halves rounded up) and between the least and
\* the greatest sample.
C7_AverageOfSuccesses ==
    (AverageEnded /\ Successes # <<>>) =>
        /\ pingResult.status = "success"
        /\ pingResult.testCount = Len(Successes)
        /\ pingResult.testCount <= Finished
        /\ Finished = TEST_COUNT
        /\ pingResult.allLatencies = Successes
        /\ 2 * pingResult.latency * Len(Successes) - Len(Successes) <= 2 * Sum(Successes)
        /\ 2 * Sum(Successes) < 2 * pingResult.latency * Len(Successes) + Len(Successes)
        /\ Min(Range(Successes)) <= pingResult.latency
        /\ pingResult.latency <= Max(Range(Successes))

\* C7 witness: a run with a failed probe whose mean is no integer
C7_Witness ==
    /\ AverageEnded
    /\ pingResult.status = "success"
    /\ pingResult.testCount = 4
    /\ Sum(pingResult.allLatencies) % 4 = 2

\* C8: a test all of whose probes failed ends with status error, latency
\* null and neither testCount nor allLatencies.
C8_AllFailed ==
    (pingPc = "idle" /\ runKind # "none" /\ Successes = <<>>) =>
        /\ pingResult.status = "error"
        /\ pingResult.latency = Null
        /\ "testCount" \notin DOMAIN pingResult
        /\ "allLatencies" \notin DOMAIN pingResult

\* C8 witness: an averaged run of five failed probes has ended
C8_Witness ==
    /\ AverageEnded
    /\ Finished = TEST_COUNT
    /\ Successes = <<>>
    /\ pingResult.status = "error"

\* C9: the probes of an averaged run are sequential. A probe starts only
\* when every earlier one has returned and been followed by a delay; a run
\* ends after TEST_COUNT probes, failed or not, and TEST_COUNT - 1 delays.
C9_SequentialProbes ==
    runKind = "average" =>
        /\ (pingPc = "avgPing" => started = Finished + 1 /\ delays = Finished)
        /\ (pingPc = "avgDelay" =>
                started = Finished /\ delays = Finished /\ Finished < TEST_COUNT)
        /\ (pingPc = "idle" =>
                started = TEST_COUNT /\ Finished = TEST_COUNT /\ delays = TEST_COUNT - 1)

\* C9 witness: a run whose first probe failed has ended after five probes
C9_Witness ==
    /\ AverageEnded
    /\ samples[1] = Null
    /\ samples[TEST_COUNT] # Null
    /\ delays = 4

AverageRunning == pingPc \in {"avgPing", "avgDelay"}

\* C10, as claimed: during an averaged run the progress is the number of
\* probes that have finished.
C10_ProgressIsFinished == AverageRunning => avgProgress = Finished

\* C10, amended: the progress is set to a probe's 1-based index when that
\* probe starts. During a run it is the number of probes started, one more
\* than the number finished while a probe is in flight; outside a run it is 0.
C10_ProgressIsStarted ==
    /\ (AverageRunning => avgProgress = started)
    /\ (pingPc = "avgPing" => avgProgress = Finished + 1)
    /\ (pingPc = "avgDelay" => avgProgress = Finished)
    /\ (pingPc \in {"idle", "single"} => avgProgress = 0)

\* C10 witness: the third probe is in flight
C10_Witness ==
    /\ pingPc = "avgPing"
    /\ avgProgress = 3
    /\ Finished = 2

\* The body of a response is an object whose success is false and whose
\* message is a string
SuccessFalse(text) ==
    /\ JSONParse(text).ok
    /\ Get(JSONParse(text).val, KeySuccess) = JLiteral("false")
    /\ Get(JSONParse(text).val, KeyMessage).kind = "string"

\* Call i of fetchIpInfo ends in this step
Settles(i) == i \in DOMAIN lookups /\ lookups[i].pc # "done" /\ lookups'[i].pc = "done"

\* C11, as claimed: when the geo API answers with success = false, the geo
\* card enters the error view and the error held in state is the message
\* field of the response body.
C11_MessageIsErrorDetail ==
    [][\A i \in DOMAIN lookups :
          Settles(i) /\ lookups[i].pc = "json" /\ SuccessFalse(lookups[i].body)
          => /\ ~loading'
             /\ error' = Get(JSONParse(lookups[i].body).val, KeyMessage)]_vars

\* C12: turns are append-only except the pending Assistant turn. No step
\* removes or reorders turns or changes a turn other than the last; the last
\* turn keeps its role, changes only while the exchange that created it is in
\* flight (or in the submission that creates it), and only if it is the
\* Assistant's.
C12_AppendOnly ==
    [][LET n == Len(chatMessages)
       IN  /\ Len(chatMessages') >= n
           /\ \A i \in 1..(n - 1) : chatMessages'[i] = chatMessages[i]
           /\ n > 0 =>
                /\ chatMessages'[n].role = chatMessages[n].role
                /\ chatMessages'[n] # chatMessages[n] =>
                     InFlight /\ chatMessages[n].role = "assistant"]_vars

\* A second exchange has failed after fragments of its own, and the turns of
\* the first, which completed, are as it left them
C12_Witness ==
    /\ Len(chatMessages) = 4
    /\ outcome = "failed"
    /\ partial # <<>>
    /\ chatMessages[1].role = "user"
    /\ chatMessages[2] = Turn("assistant", HiThere)
    /\ chatMessages[3].role = "user"
    /\ chatMessages[4] = Turn("assistant", ErrorPrefix \o thrown)

\* A step of one exchange's state machine: Idle (chatPc idle) -> Sending
\* (fetch) -> Streaming (read) -> Completed | Failed (idle again, with the
\* outcome), Failed also from Sending; an exchange that has ended writes
\* nothing more; a submission that is accepted starts a fresh exchange
ExchangeStep ==
    LET n == Len(chatMessages)
        accepted == exchanges' = exchanges + 1
    IN  /\ chatPc = "idle" /\ ~accepted =>
              UNCHANGED <<chatMessages, chatPc, chatLoading, outcome, thrown, requests>>
        /\ accepted =>
              /\ chatPc = "idle" /\ ~Rejected
              /\ Len(chatMessages') = n + 2
              /\ chatMessages'[n + 1] = Turn("user", Trim(chatInput))
              /\ chatMessages'[n + 2].role = "assistant"
              /\ \/ /\ apiKey /\ chatPc' = "fetch" /\ outcome' = "none" /\ chatLoading'
                     /\ chatMessages'[n + 2].content = <<>>
                     /\ requests' = requests + 1
                 \/ /\ ~apiKey /\ chatPc' = "idle" /\ outcome' = "failed"
        /\ chatPc = "fetch" =>
              \/ chatPc' \in {"fetch", "read"} /\ outcome' = "none"
              \/ chatPc' = "idle" /\ outcome' = "failed"
        /\ chatPc = "read" =>
              \/ chatPc' = "read" /\ outcome' = "none"
              \/ chatPc' = "idle" /\ outcome' \in {"completed", "failed"}

\* The controls take a submission of the text in the input
Accepting == ~InputDisabled /\ (Trim(chatInput) # <<>> => ~ButtonDisabled /\ ~Rejected)

\* C13: every step is a step of the exchange state machine; an exchange that
\* has ended has cleared chatLoading, whichever way it ended; and once React
\* has rendered that, the controls accept the next non-empty submission,
\* which starts a fresh exchange.
C13_ExchangeStateMachine ==
    /\ [][ExchangeStep]_vars
    /\ [](chatPc = "idle" => ~chatLoading)
    /\ [](chatPc # "idle" => outcome = "none")
    /\ (chatPc = "idle" /\ outcome # "none") ~> (chatPc = "idle" /\ Accepting)

\* A second exchange is being sent after the first failed while streaming
C13_Witness ==
    /\ exchanges = 2
    /\ chatPc = "fetch"
    /\ outcome = "none"
    /\ chatMessages[2] = Turn("assistant", ErrorPrefix \o NetworkError)
    /\ chatMessages[4] = Turn("assistant", <<>>)

TestRunning == pingPc # "idle"

\* A step of the latency tests: a test starts only when none is running and
\* writes the pending result; any other write of pingResult is the terminal
\* write of the running test, from pending to success or error, and ends it
TestStep ==
    /\ runs' # runs =>
          /\ ~TestRunning /\ ~testing /\ ~testingAverage
          /\ pingResult'.status = "pending"
          /\ pingPc' # "idle"
    /\ (runs' = runs /\ pingResult' # pingResult) =>
          /\ TestRunning /\ pingPc' = "idle"
          /\ pingResult.status = "pending"
          /\ pingResult'.status \in {"success", "error"}
          /\ ~testing' /\ ~testingAverage'
    /\ (runs' = runs /\ pingPc' # pingPc) => TestRunning

\* C14: latency tests never overlap. A test starts only when none is running;
\* while one runs both buttons are disabled, exactly one of the running flags
\* is set and the result is pending; the result is written once more, to
\* success or error, when the test ends, and then both flags are false.
C14_TestsNeverOverlap ==
    /\ [][TestStep]_vars
    /\ [](TestRunning =>
            /\ TestButtonsDisabled
            /\ testing # testingAverage
            /\ testing = (runKind = "single")
            /\ pingResult.status = "pending")
    /\ [](~TestRunning =>
            /\ ~testing /\ ~testingAverage
            /\ (runs > 0 => pingResult.status \in {"success", "error"}))

\* A second test, an averaged one, is between two probes with both buttons
\* disabled
C14_Witness ==
    /\ runs = 2
    /\ runKind = "average"
    /\ pingPc = "avgDelay"
    /\ Len(samples) = 2
    /\ pingResult = PendingAverage
    /\ TestButtonsDisabled

\* The calls of fetchIpInfo that have not ended
Outstanding == {i \in DOMAIN lookups : lookups[i].pc # "done"}

\* C15, as claimed: the loading flag is set while any lookup is outstanding,
\* and once none is, the geo card shows the outcome of the lookup started
\* last: the error view if it failed, its record if it succeeded.
C15_LatestLookupShown ==
    /\ Outstanding # {} => loading
    /\ (Outstanding = {} /\ lookups # <<>>) =>
          LET last == lookups[Len(lookups)]
          IN  IF last.threw THEN GeoCard = "error"
              ELSE GeoCard = "record" /\ ipInfo = ReadData(last.body).info

\* The Assistant content the stream loop leaves when the whole body of the
\* events es arrives as one chunk
OneChunkContent(es) ==
    LET text == StreamDecode(<<>>, EncodeEvents(es)).text
    IN  LastContent(ProcessLines(<<Turn("assistant", <<>>)>>, Split(text, NL), 1))

\* C16, as claimed: however the body is cut into chunks, the stream ends with
\* the Assistant content that the body in one chunk gives.
C16_ChunkingIndependent ==
    outcome = "completed" => LastContent(chatMessages) = OneChunkContent(events)

====
